---- MODULE Spec2Model ----
(***************************************************************************)
(* Model of the log-analyzer command (cmd/log-analyzer/main.go).           *)
(*                                                                         *)
(* Text is modelled as a sequence of one-character strings, so that        *)
(* splitting, suffix tests, case folding and number parsing are computed   *)
(* the way the Go code computes them.  Two kinds of chunk are abbreviated  *)
(* to a single symbol, because only the standard library looks inside      *)
(* them: "D" stands for a well-formed date field such as 2024-01-01, and   *)
(* "T1", "T2", "T3" for the well-formed time fields 10:00:00, 11:00:00     *)
(* and 12:00:00.  Neither contains a space, a comma or a dot.              *)
(***************************************************************************)
EXTENDS Integers, Sequences, FiniteSets

VARIABLES
    pc,         \* position of main, or of the harness of a pure function
    fileArg,    \* flag.Arg(0)
    levelFlag,  \* *level
    startFlag,  \* *start
    endFlag,    \* *end
    levels,     \* the package variable levels (a set of strings)
    startTime,  \* the package variable startTime (0 is the zero time)
    endTime,    \* the package variable endTime
    file,       \* the lines of the opened file
    pos,        \* number of lines the scanner has returned
    warnings,   \* number of "invalid log entry" lines written to the log
    logs,       \* the entries ReadFile has collected / Analyze ranges over
    idx,        \* number of entries Analyze (or the Add harness) has handled
    report,     \* the AnalysisReport
    out,        \* what Print wrote
    fatal,      \* the message of log.Fatal, "" while the process lives
    line,       \* NewLogEntry harness: the argument
    parsed      \* NewLogEntry harness: the returned pair

vars == <<pc, fileArg, levelFlag, startFlag, endFlag, levels, startTime, endTime,
          file, pos, warnings, logs, idx, report, out, fatal, line, parsed>>

----------------------------------------------------------------------------
(* Bounds of the model. *)

MaxLines == 3
MaxAdds == 3
MaxMsgLen == 5
MaxLineLen == 6
FracDigits == 3

----------------------------------------------------------------------------
(* Strings *)

UpperChars == <<"A","B","C","D","E","F","G","H","I","J","K","L","M",
                "N","O","P","Q","R","S","T","U","V","W","X","Y","Z">>
LowerChars == <<"a","b","c","d","e","f","g","h","i","j","k","l","m",
                "n","o","p","q","r","s","t","u","v","w","x","y","z">>

LowerChar(c) ==
    IF \E i \in DOMAIN UpperChars : UpperChars[i] = c
    THEN LowerChars[CHOOSE i \in DOMAIN UpperChars : UpperChars[i] = c]
    ELSE c

\* strings.ToLower
ToLower(s) == [i \in DOMAIN s |-> LowerChar(s[i])]

\* strings.HasSuffix
HasSuffix(s, suffix) ==
    /\ Len(s) >= Len(suffix)
    /\ SubSeq(s, Len(s) - Len(suffix) + 1, Len(s)) = suffix

\* strings.TrimSuffix
TrimSuffix(s, suffix) ==
    IF HasSuffix(s, suffix) THEN SubSeq(s, 1, Len(s) - Len(suffix)) ELSE s

\* Index of the first occurrence of the one-character separator, 0 if none.
IndexOf(s, sep) ==
    IF \E i \in DOMAIN s : s[i] = sep
    THEN CHOOSE i \in DOMAIN s : s[i] = sep /\ \A j \in 1..(i - 1) : s[j] # sep
    ELSE 0

\* strings.SplitN(s, sep, n) for a one-character sep and n >= 1: at most n
\* pieces, the last one the unsplit remainder.
RECURSIVE SplitN(_, _, _)
SplitN(s, sep, n) ==
    IF n <= 1 \/ IndexOf(s, sep) = 0
    THEN <<s>>
    ELSE <<SubSeq(s, 1, IndexOf(s, sep) - 1)>>
         \o SplitN(SubSeq(s, IndexOf(s, sep) + 1, Len(s)), sep, n - 1)

\* strings.Split(s, sep) for a one-character sep: every piece, empty ones too.
Split(s, sep) == SplitN(s, sep, Len(s) + 1)

\* strings.Cut(s, sep): the text after the first sep ("" when there is none).
CutAfter(s, sep) ==
    IF IndexOf(s, sep) = 0 THEN <<>> ELSE SubSeq(s, IndexOf(s, sep) + 1, Len(s))

----------------------------------------------------------------------------
(* Numbers and times *)

Digits == {"5"}

RECURSIVE Pow10(_)
Pow10(n) == IF n = 0 THEN 1 ELSE 10 * Pow10(n - 1)

DigitVal(c) == IF c = "5" THEN 5 ELSE 0

RECURSIVE DigitsVal(_)
DigitsVal(s) ==
    IF s = <<>> THEN 0
    ELSE 10 * DigitsVal(SubSeq(s, 1, Len(s) - 1)) + DigitVal(s[Len(s)])

\* strconv.ParseFloat(w, 64) on decimal text: digits with at most one dot and
\* at least one digit.  The value is kept in units of 10^-FracDigits, which
\* is exact for the fractions of up to FracDigits digits.
ParseFloat(w) ==
    LET dots == {i \in DOMAIN w : w[i] = "."}
        dot == IF dots = {} THEN Len(w) + 1 ELSE CHOOSE i \in dots : TRUE
        ip == SubSeq(w, 1, dot - 1)
        fp == SubSeq(w, dot + 1, IF Len(w) - dot > FracDigits
                                 THEN dot + FracDigits ELSE Len(w))
        wellFormed == /\ \A i \in DOMAIN w : w[i] \in Digits \cup {"."}
                      /\ Cardinality(dots) <= 1
                      /\ Len(w) > Cardinality(dots)
    IN  IF wellFormed
        THEN [ok |-> TRUE,
              n |-> DigitsVal(ip) * Pow10(FracDigits)
                    + DigitsVal(fp) * Pow10(FracDigits - Len(fp))]
        ELSE [ok |-> FALSE, n |-> 0]

TimeFields == {"T1", "T2", "T3"}

TimeVal(c) == IF c = "T1" THEN 1 ELSE IF c = "T2" THEN 2 ELSE 3

\* time.Parse(time.DateTime, s): s must be a date field, one space and a time
\* field.  Times are counted in hours after 2024-01-01 09:00:00; 0 is kept
\* for the zero time.Time.
ParseDateTime(s) ==
    IF Len(s) = 3 /\ s[1] = "D" /\ s[2] = " " /\ s[3] \in TimeFields
    THEN [ok |-> TRUE, t |-> TimeVal(s[3])]
    ELSE [ok |-> FALSE, t |-> 0]

----------------------------------------------------------------------------
(* Entries and the parser *)

\* The zero value LogEntry{}.
ZeroEntry == [time |-> 0, level |-> <<>>, message |-> <<>>]

\* NewLogEntry with the error of time.Parse dropped.
NewLogEntryAnyTime(l) ==
    LET logLine == SplitN(l, " ", 4)
    IN  IF Len(logLine) < 4
        THEN [entry |-> ZeroEntry, err |-> "invalid log entry"]
        ELSE [entry |-> [time |-> ParseDateTime(logLine[1] \o <<" ">> \o logLine[2]).t,
                         level |-> logLine[3], message |-> logLine[4]],
              err |-> ""]

NewLogEntry(l) ==
    LET logLine == SplitN(l, " ", 4)
    IN  IF Len(logLine) < 4
        THEN [entry |-> ZeroEntry, err |-> "invalid log entry"]
        ELSE LET t == ParseDateTime(logLine[1] \o <<" ">> \o logLine[2])
             IN  IF ~t.ok
                 THEN [entry |-> ZeroEntry, err |-> "invalid log time"]
                 ELSE [entry |-> [time |-> t.t, level |-> logLine[3],
                                  message |-> logLine[4]],
                       err |-> ""]

\* One iteration of the scanner loop of ReadFile: the entry NewLogEntry
\* returned is appended whether or not it came with an error.
ReadFileAppend(entries, l) == Append(entries, NewLogEntry(l).entry)

\* The warning ReadFile logs for the line (0 or 1 lines of log output).
ReadFileWarns(l) == IF NewLogEntry(l).err # "" THEN 1 ELSE 0

\* isLogFile
isLogFile(name) ==
    CutAfter(name, ".") \in {<<"l","o","g">>, <<"t","x","t">>}

----------------------------------------------------------------------------
(* The report *)

LevelInfo == <<"i","n","f","o">>
LevelWarn == <<"w","a","r","n">>
LevelError == <<"e","r","r","o","r">>
LevelDebug == <<"d","e","b","u","g">>

EmptyMap == [k \in {} |-> 0]

\* The report Analyze starts from.
NewReport ==
    [TotalEntries |-> 0, Info |-> 0, Warn |-> 0, Error |-> 0, Debug |-> 0,
     ResponseTime |-> <<>>, MsgFrequency |-> EmptyMap]

\* m[k]++ on a Go map.
MapIncr(m, k) ==
    [x \in DOMAIN m \cup {k} |->
        IF x = k THEN (IF k \in DOMAIN m THEN m[k] + 1 ELSE 1) ELSE m[x]]

\* AddResponseTime with the suffix trimmed being "ms", as in the test above it.
AddResponseTimeTrimMs(samples, message) ==
    IF HasSuffix(message, <<"m","s">>)
    THEN LET words == Split(TrimSuffix(message, <<"m","s">>), " ")
             respTime == words[Len(words)]
             f == ParseFloat(respTime)
         IN  IF f.ok THEN Append(samples, f.n) ELSE samples
    ELSE samples

\* The response-time part of Add: the samples after the entry is added.
AddResponseTime(samples, message) ==
    IF HasSuffix(message, <<"m","s">>)
    THEN LET words == Split(TrimSuffix(message, <<" ","m","s">>), " ")
             respTime == words[Len(words)]
             f == ParseFloat(respTime)
         IN  IF f.ok THEN Append(samples, f.n) ELSE samples
    ELSE samples

\* AddLevel with the level compared as written.
AddLevelAsWritten(count, level, want) ==
    IF level = want THEN count + 1 ELSE count

\* The level switch of Add: the counter named by want after the entry is added.
AddLevel(count, level, want) ==
    IF ToLower(level) = want THEN count + 1 ELSE count

Add(r, entry) ==
    [TotalEntries |-> r.TotalEntries + 1,
     Info |-> AddLevel(r.Info, entry.level, LevelInfo),
     Warn |-> AddLevel(r.Warn, entry.level, LevelWarn),
     Error |-> AddLevel(r.Error, entry.level, LevelError),
     Debug |-> AddLevel(r.Debug, entry.level, LevelDebug),
     ResponseTime |-> AddResponseTime(r.ResponseTime, entry.message),
     MsgFrequency |-> MapIncr(r.MsgFrequency, entry.message)]

----------------------------------------------------------------------------
(* The filter predicates main builds; true means "skip the entry". *)

LevelFilter(entry) == ToLower(entry.level) \notin levels

StartFilter(entry) == startTime # 0 /\ entry.time < startTime

EndFilter(entry) == endTime # 0 /\ entry.time > endTime

\* filter[i](entry), for the slice main passes to Analyze.
Filter(i, entry) ==
    IF i = 1 THEN LevelFilter(entry)
    ELSE IF i = 2 THEN StartFilter(entry)
    ELSE EndFilter(entry)

NumFilters == 3

\* AnalyzeEntry with the `continue` reaching the outer loop.
AnalyzeEntrySkipping(r, entry) ==
    IF \E i \in 1..NumFilters : Filter(i, entry) THEN r ELSE Add(r, entry)

\* The body of the outer loop of Analyze for one entry.  The inner loop calls
\* every predicate; its `continue` continues the inner loop, so the calls
\* decide nothing and the entry is added.
AnalyzeEntry(r, entry) ==
    LET skips == [i \in 1..NumFilters |-> Filter(i, entry)]
    IN  IF \E i \in DOMAIN skips : skips[i] THEN Add(r, entry) ELSE Add(r, entry)

----------------------------------------------------------------------------
(* AnalysisReport.Print *)

RECURSIVE Insert(_, _)
Insert(x, s) ==
    IF s = <<>> THEN <<x>>
    ELSE IF x <= Head(s) THEN <<x>> \o s
    ELSE <<Head(s)>> \o Insert(x, Tail(s))

\* sort.Ints
RECURSIVE SortInts(_)
SortInts(s) == IF s = <<>> THEN <<>> ELSE Insert(Head(s), SortInts(Tail(s)))

\* The orders in which a range loop may visit the keys of a map.
RangeOrders(m) ==
    {o \in [1..Cardinality(DOMAIN m) -> DOMAIN m] :
        \A i, j \in DOMAIN o : i # j => o[i] # o[j]}

\* TopCount taking the first of the sorted counts.
TopCountFirst(freqCount) == freqCount[1]

\* The count Print compares every value with: the last of the sorted counts.
TopCount(freqCount) == freqCount[Len(freqCount)]

\* The second loop of Print over the keys in the order o: the last key whose
\* count equals the top count.
RECURSIVE LastWithCount(_, _, _, _)
LastWithCount(m, o, top, freqMsg) ==
    IF o = <<>> THEN freqMsg
    ELSE LastWithCount(m, Tail(o), top,
                       IF m[Head(o)] = top THEN Head(o) ELSE freqMsg)

FreqMsg(m, o) ==
    LastWithCount(m, o, TopCount(SortInts([i \in DOMAIN o |-> m[o[i]]])), <<>>)

RECURSIVE SumSeq(_)
SumSeq(s) == IF s = <<>> THEN 0 ELSE Head(s) + SumSeq(Tail(s))

\* The average Print writes with %.2f, in hundredths of a millisecond
\* (samples are in units of 10^-FracDigits; rounded to the nearest hundredth).
AvgHundredths(samples) ==
    LET d == Len(samples) * Pow10(FracDigits)
    IN  (2 * SumSeq(samples) * 100 + d) \div (2 * d)

NoOutput == [printed |-> FALSE]

PrintOutput(r, o) ==
    [printed |-> TRUE,
     total |-> r.TotalEntries, info |-> r.Info, debug |-> r.Debug,
     warn |-> r.Warn, error |-> r.Error,
     hasAvg |-> Len(r.ResponseTime) > 0,
     avg |-> IF Len(r.ResponseTime) > 0 THEN AvgHundredths(r.ResponseTime) ELSE 0,
     freqMsg |-> FreqMsg(r.MsgFrequency, o)]

----------------------------------------------------------------------------
(* Inputs *)

SeqsUpTo(A, n) == UNION {[1..k -> A] : k \in 0..n}

FileArgs ==
    { <<>>,
      <<"a",".","g","o">>,
      <<"a",".","l","o","g">>,
      <<"a",".","l","o","g",".","b","a","k">> }

LevelFlags ==
    { <<"i","n","f","o">>,
      <<"I","N","F","O">>,
      <<"I","n","f","o",",","W","a","r","n">> }

\* "", a timestamp in the layout of time.DateTime, and one in the T-separated
\* form the usage text shows.
TimeFlags == { <<>>, <<"D"," ","T2">>, <<"D","T","T2">> }

FileLines ==
    { <<"D"," ","T1"," ","I","N","F","O"," ","a"," ","5"," ","m","s">>,
      <<"D"," ","T2"," ","w","a","r","n"," ","b">>,
      <<"D"," ","T3"," ","E","r","r","o","r"," ","b">>,
      <<"b","a","d"," ","l","i","n","e">>,
      <<>> }

Files == SeqsUpTo(FileLines, MaxLines)

----------------------------------------------------------------------------
(* main *)

Init ==
    /\ pc = "args"
    /\ fileArg = <<>>
    /\ levelFlag = <<"i","n","f","o">>
    /\ startFlag = <<>>
    /\ endFlag = <<>>
    /\ levels = {}
    /\ startTime = 0
    /\ endTime = 0
    /\ file = <<>>
    /\ pos = 0
    /\ warnings = 0
    /\ logs = <<>>
    /\ idx = 0
    /\ report = NewReport
    /\ out = NoOutput
    /\ fatal = ""
    /\ line = <<>>
    /\ parsed = [entry |-> ZeroEntry, err |-> ""]

\* The outcome of the argument and flag handling of main (lines 33-60) as the
\* message of the first log.Fatal reached, "" when none is.
ArgsFatal(fa, sf, ef) ==
    IF fa = <<>> THEN "arg: file name is required"
    ELSE IF ~isLogFile(fa) THEN "arg: is not a log file"
    ELSE IF sf # <<>> /\ ~ParseDateTime(sf).ok THEN "invalid start time"
    ELSE IF ef # <<>> /\ ~ParseDateTime(ef).ok THEN "invalid end time"
    ELSE ""

\* The keys the loop over strings.Split(*level, ",") puts into levels.
LevelKeys(lf) == {Split(lf, ",")[i] : i \in DOMAIN Split(lf, ",")}

\* main up to the construction of the filter slice.
ParseArgs ==
    /\ pc = "args"
    /\ \E fa \in FileArgs, lf \in LevelFlags, sf \in TimeFlags, ef \in TimeFlags :
        /\ fileArg' = fa
        /\ levelFlag' = lf
        /\ startFlag' = sf
        /\ endFlag' = ef
        /\ fatal' = ArgsFatal(fa, sf, ef)
        /\ pc' = IF ArgsFatal(fa, sf, ef) = "" THEN "open" ELSE "fatal"
        /\ levels' = IF fa # <<>> /\ isLogFile(fa) THEN levels \cup LevelKeys(lf)
                     ELSE levels
        /\ startTime' = IF fa # <<>> /\ isLogFile(fa) /\ ParseDateTime(sf).ok
                        THEN ParseDateTime(sf).t ELSE startTime
        /\ endTime' = IF ArgsFatal(fa, sf, <<>>) = "" /\ ParseDateTime(ef).ok
                      THEN ParseDateTime(ef).t ELSE endTime
    /\ UNCHANGED <<file, pos, warnings, logs, idx, report, out, line, parsed>>

\* os.OpenFile, and the entry into ReadFile.
OpenFile ==
    /\ pc = "open"
    /\ \E ok \in BOOLEAN :
        \E content \in (IF ok THEN Files ELSE {<<>>}) :
            /\ file' = content
            /\ fatal' = IF ok THEN "" ELSE "failed to open file"
            /\ pc' = IF ok THEN "read" ELSE "fatal"
    /\ UNCHANGED <<fileArg, levelFlag, startFlag, endFlag, levels, startTime,
                   endTime, pos, warnings, logs, idx, report, out, line, parsed>>

\* One iteration of the loop of ReadFile.
ReadLine ==
    /\ pc = "read"
    /\ pos < Len(file)
    /\ pos' = pos + 1
    /\ warnings' = warnings + ReadFileWarns(file[pos + 1])
    /\ logs' = ReadFileAppend(logs, file[pos + 1])
    /\ UNCHANGED <<pc, fileArg, levelFlag, startFlag, endFlag, levels, startTime,
                   endTime, file, idx, report, out, fatal, line, parsed>>

\* NoLogs testing for a nil slice that ReadFile never returns.
NoLogsNever(entries) == Len(entries) < 0

\* The test main makes on what ReadFile returned.
NoLogs(entries) == Len(entries) = 0

\* ReadFile returns; main stops on an empty list, otherwise Analyze starts
\* with a fresh report.
ReadDone ==
    /\ pc = "read"
    /\ pos = Len(file)
    /\ IF NoLogs(logs)
       THEN /\ fatal' = "no log entries found"
            /\ pc' = "fatal"
       ELSE /\ fatal' = fatal
            /\ pc' = "analyze"
    /\ report' = NewReport
    /\ idx' = 0
    /\ UNCHANGED <<fileArg, levelFlag, startFlag, endFlag, levels, startTime,
                   endTime, file, pos, warnings, logs, out, line, parsed>>

\* One iteration of the outer loop of Analyze.
AnalyzeNext ==
    /\ pc = "analyze"
    /\ idx < Len(logs)
    /\ idx' = idx + 1
    /\ report' = AnalyzeEntry(report, logs[idx + 1])
    /\ UNCHANGED <<pc, fileArg, levelFlag, startFlag, endFlag, levels, startTime,
                   endTime, file, pos, warnings, logs, out, fatal, line, parsed>>

\* Analyze returns the report.
AnalyzeDone ==
    /\ pc = "analyze"
    /\ idx = Len(logs)
    /\ pc' = "print"
    /\ UNCHANGED <<fileArg, levelFlag, startFlag, endFlag, levels, startTime,
                   endTime, file, pos, warnings, logs, idx, report, out, fatal,
                   line, parsed>>

\* report.Print().  With no key in MsgFrequency the index
\* freqCount[len(freqCount)-1] is out of range and the program panics.
PrintReport ==
    /\ pc = "print"
    /\ IF DOMAIN report.MsgFrequency = {}
       THEN /\ pc' = "panic"
            /\ out' = out
       ELSE /\ pc' = "done"
            /\ \E o \in RangeOrders(report.MsgFrequency) :
                out' = PrintOutput(report, o)
    /\ UNCHANGED <<fileArg, levelFlag, startFlag, endFlag, levels, startTime,
                   endTime, file, pos, warnings, logs, idx, report, fatal,
                   line, parsed>>

Next ==
    \/ ParseArgs
    \/ OpenFile
    \/ ReadLine
    \/ ReadDone
    \/ AnalyzeNext
    \/ AnalyzeDone
    \/ PrintReport

Spec == Init /\ [][Next]_vars

----------------------------------------------------------------------------
(* Harness for AnalysisReport.Add: a fresh report and a list of entries, each
   passed to Add in turn. *)

ProbeLevels ==
    { <<"i","n","f","o">>, <<"I","N","F","O">>, <<"I","n","f","o">>,
      <<"w","a","r","n">>, <<"W","A","R","N">>,
      <<"e","r","r","o","r">>, <<"E","r","R","o","R">>,
      <<"d","e","b","u","g">>, <<"D","E","B","U","G">>,
      <<"t","r","a","c","e">>, <<"i","n","f">>, <<>> }

LevelEntries ==
    {[time |-> 1, level |-> l, message |-> <<"a">>] : l \in ProbeLevels}

MsgAlphabet == {"5", ".", "m", "s", " "}

MessageEntries ==
    {[time |-> 1, level |-> LevelInfo, message |-> m] :
        m \in SeqsUpTo(MsgAlphabet, MaxMsgLen)}

TimedEntry == [time |-> 1, level |-> LevelInfo, message |-> <<"5"," ","m","s">>]

AddInputs ==
    SeqsUpTo(LevelEntries, MaxAdds)
    \cup {<<e>> : e \in MessageEntries}
    \cup {<<TimedEntry, e>> : e \in MessageEntries}

InitAdd ==
    /\ pc = "add"
    /\ logs \in AddInputs
    /\ idx = 0
    /\ report = NewReport
    /\ fileArg = <<>>
    /\ levelFlag = <<>>
    /\ startFlag = <<>>
    /\ endFlag = <<>>
    /\ levels = {}
    /\ startTime = 0
    /\ endTime = 0
    /\ file = <<>>
    /\ pos = 0
    /\ warnings = 0
    /\ out = NoOutput
    /\ fatal = ""
    /\ line = <<>>
    /\ parsed = [entry |-> ZeroEntry, err |-> ""]

AddCall ==
    /\ pc = "add"
    /\ idx < Len(logs)
    /\ idx' = idx + 1
    /\ report' = Add(report, logs[idx + 1])
    /\ UNCHANGED <<pc, fileArg, levelFlag, startFlag, endFlag, levels, startTime,
                   endTime, file, pos, warnings, logs, out, fatal, line, parsed>>

SpecAdd == InitAdd /\ [][AddCall]_vars

----------------------------------------------------------------------------
(* Harness for NewLogEntry: one line, parsed once. *)

LineAlphabet == {"D", "T1", " ", "x"}

InitParse ==
    /\ pc = "parse"
    /\ line \in SeqsUpTo(LineAlphabet, MaxLineLen)
    /\ parsed = [entry |-> ZeroEntry, err |-> ""]
    /\ logs = <<>>
    /\ idx = 0
    /\ report = NewReport
    /\ fileArg = <<>>
    /\ levelFlag = <<>>
    /\ startFlag = <<>>
    /\ endFlag = <<>>
    /\ levels = {}
    /\ startTime = 0
    /\ endTime = 0
    /\ file = <<>>
    /\ pos = 0
    /\ warnings = 0
    /\ out = NoOutput
    /\ fatal = ""

ParseLine ==
    /\ pc = "parse"
    /\ pc' = "parsed"
    /\ parsed' = NewLogEntry(line)
    /\ UNCHANGED <<fileArg, levelFlag, startFlag, endFlag, levels, startTime,
                   endTime, file, pos, warnings, logs, idx, report, out, fatal,
                   line>>

SpecParse == InitParse /\ [][ParseLine]_vars

----------------------------------------------------------------------------
(* Vocabulary of the properties *)

\* The entries of the lines of f that NewLogEntry parses without an error.
RECURSIVE ValidEntries(_)
ValidEntries(f) ==
    IF f = <<>> THEN <<>>
    ELSE (IF NewLogEntry(Head(f)).err = "" THEN <<NewLogEntry(Head(f)).entry>>
          ELSE <<>>)
         \o ValidEntries(Tail(f))

\* Some predicate of the filter slice returns true for the entry.
Excluded(entry) == \E i \in 1..NumFilters : Filter(i, entry)

\* The report after Add has been called for the non-excluded entries of es.
RECURSIVE AddKept(_, _)
AddKept(r, es) ==
    IF es = <<>> THEN r
    ELSE AddKept(IF Excluded(Head(es)) THEN r ELSE Add(r, Head(es)), Tail(es))

\* ReadFile has returned and main has gone past its test of the result.
PastReadFile == pc \in {"analyze", "print", "done", "panic"}

\* The entries handed to Add so far.
Added == SubSeq(logs, 1, idx)

\* Two strings are equal ignoring (ASCII) case.
SameLetter(c, d) ==
    \/ c = d
    \/ \E k \in DOMAIN UpperChars : {c, d} = {UpperChars[k], LowerChars[k]}

EqualFold(a, b) ==
    /\ Len(a) = Len(b)
    /\ \A i \in DOMAIN a : SameLetter(a[i], b[i])

CountLevel(es, name) ==
    Cardinality({i \in DOMAIN es : EqualFold(es[i].level, name)})

KnownLevels == {LevelInfo, LevelWarn, LevelError, LevelDebug}

CountUnknown(es) ==
    Cardinality({i \in DOMAIN es :
                    \A name \in KnownLevels : ~EqualFold(es[i].level, name)})

\* The whitespace-delimited tokens of s: the maximal runs of non-space
\* characters.
RECURSIVE Tokens(_)
Tokens(s) ==
    IF s = <<>> THEN <<>>
    ELSE IF Head(s) = " " THEN Tokens(Tail(s))
    ELSE LET n == IF IndexOf(s, " ") = 0 THEN Len(s) ELSE IndexOf(s, " ") - 1
         IN  <<SubSeq(s, 1, n)>> \o Tokens(SubSeq(s, n + 1, Len(s)))

\* The pieces of s between its single spaces: a piece is empty where two
\* spaces meet or where s begins or ends with a space.
RECURSIVE Pieces(_)
Pieces(s) ==
    IF IndexOf(s, " ") = 0 THEN <<s>>
    ELSE <<SubSeq(s, 1, IndexOf(s, " ") - 1)>>
         \o Pieces(SubSeq(s, IndexOf(s, " ") + 1, Len(s)))

EndsWithSpaceMs(m) ==
    /\ Len(m) >= 3
    /\ m[Len(m) - 2] = " " /\ m[Len(m) - 1] = "m" /\ m[Len(m)] = "s"

\* The samples the entries es leave, when a message contributes the number
\* its second-to-last token spells, tokens being those of Tokens.
RECURSIVE SamplesByTokens(_)
SamplesByTokens(es) ==
    IF es = <<>> THEN <<>>
    ELSE LET m == es[Len(es)].message
             t == Tokens(m)
             before == SamplesByTokens(SubSeq(es, 1, Len(es) - 1))
         IN  IF EndsWithSpaceMs(m) /\ Len(t) >= 2 /\ ParseFloat(t[Len(t) - 1]).ok
             THEN before \o <<ParseFloat(t[Len(t) - 1]).n>>
             ELSE before

\* The same, tokens being the pieces between single spaces.
RECURSIVE SamplesByPieces(_)
SamplesByPieces(es) ==
    IF es = <<>> THEN <<>>
    ELSE LET m == es[Len(es)].message
             t == Pieces(m)
             before == SamplesByPieces(SubSeq(es, 1, Len(es) - 1))
         IN  IF EndsWithSpaceMs(m) /\ Len(t) >= 2 /\ ParseFloat(t[Len(t) - 1]).ok
             THEN before \o <<ParseFloat(t[Len(t) - 1]).n>>
             ELSE before

NumSpaces(s) == Cardinality({i \in DOMAIN s : s[i] = " "})

\* The line begins with a well-formed date field, one space, a well-formed
\* time field and one space.
BeginsWithDateTime(s) ==
    /\ Len(s) >= 4
    /\ s[1] = "D" /\ s[2] = " " /\ s[3] \in TimeFields /\ s[4] = " "

\* The keys of m whose count is the largest.
MostFrequent(m) == {k \in DOMAIN m : \A j \in DOMAIN m : m[j] <= m[k]}

----------------------------------------------------------------------------
(* C1 *)

\* C1: a line for which NewLogEntry returns an error contributes no element
\* to the list ReadFile returns, and after Analyze TotalEntries is the number
\* of lines that parsed.  (Violated: ReadFile appends the zero entry.)
C1_BadLinesAreSkipped ==
    /\ pc \in {"read", "analyze", "print", "done"}
        => logs = ValidEntries(SubSeq(file, 1, pos))
    /\ pc \in {"print", "done"}
        => report.TotalEntries = Len(ValidEntries(file))

(* C2 *)

\* C2: in Analyze an entry for which some predicate returns true is not
\* added: the report is the one Add builds from the other entries alone.
\* (Violated: the `continue` leaves the inner loop's iteration only.)
C2_ExcludedEntriesNotAdded ==
    PastReadFile => report = AddKept(NewReport, Added)

(* C3 *)

C4_NoValidEntryIsFatal ==
    ValidEntries(file) = <<>> => ~PastReadFile

(* C5 *)

\* C5: the level predicate returns true exactly when the entry's level,
\* lower-cased, is not among the names of -level, lower-cased too.
\* (Violated: the names of -level are stored as written.)
C5_LevelFilterFoldsBothSides ==
    pc \in {"open", "read", "analyze", "print", "done"}
        => \A l \in ProbeLevels :
              LevelFilter([time |-> 1, level |-> l, message |-> <<>>])
                  <=> ToLower(l) \notin {ToLower(k) : k \in LevelKeys(levelFlag)}

(* C6 *)

\* C6: after any sequence of Add calls on a fresh report, TotalEntries is the
\* number of calls, each level counter is the number of added entries whose
\* level equals its name ignoring case, and the four counters sum to
\* TotalEntries less the number of added entries of no known level.
C6_CountersMatchAddedEntries ==
    pc = "add" =>
        /\ report.TotalEntries = Len(Added)
        /\ report.Info = CountLevel(Added, LevelInfo)
        /\ report.Warn = CountLevel(Added, LevelWarn)
        /\ report.Error = CountLevel(Added, LevelError)
        /\ report.Debug = CountLevel(Added, LevelDebug)
        /\ report.Info + report.Warn + report.Error + report.Debug
               <= report.TotalEntries
        /\ report.TotalEntries
               - (report.Info + report.Warn + report.Error + report.Debug)
           = CountUnknown(Added)

C6_Witness ==
    /\ pc = "add"
    /\ idx = 3
    /\ logs[1].level = <<"I","N","F","O">>
    /\ logs[2].level = <<"i","n","f","o">>
    /\ logs[3].level = <<"t","r","a","c","e">>
    /\ report.Info = 2
    /\ report.TotalEntries = 3

(* C7 *)

\* C7 as stated: Add appends the number spelled by the second-to-last
\* whitespace-delimited token when the message ends with " ms" and that token
\* parses, and leaves ResponseTime unchanged otherwise.  (Violated by a
\* message with two spaces before "ms": the word Add parses is empty.)
C7_SampleFromSecondToLastToken ==
    pc = "add" => report.ResponseTime = SamplesByTokens(Added)

\* C7 amended: Add appends exactly one value when the message ends with
\* " ms" and the piece between that suffix and the single space before it
\* (the second-to-last piece of the message split at every space) parses as a
\* number, the value being that number; otherwise ResponseTime is unchanged,
\* also for a message ending in "ms" without the space.
C7_SampleFromSecondToLastPiece ==
    pc = "add" => report.ResponseTime = SamplesByPieces(Added)

C7_Witness ==
    /\ pc = "add"
    /\ idx = 2
    /\ logs[1].message = <<"5"," ","m","s">>
    /\ logs[2].message = <<"5",".","5","m","s">>
    /\ report.ResponseTime = <<5 * Pow10(FracDigits)>>

(* C8 *)

\* C8 as stated: NewLogEntry returns an error for every blank line, every
\* line of at most three tokens, with or without a trailing space, and every
\* line whose date and time do not parse.  (Violated by a date, a time, a
\* level and a trailing space: SplitN yields a fourth, empty field.)
C8_FewTokensIsError ==
    pc = "parsed" =>
        ((Len(Tokens(line)) <= 3 \/ ~BeginsWithDateTime(line))
            => (parsed.err # "" /\ parsed.entry = ZeroEntry))

\* C8 amended: NewLogEntry returns an error and no entry exactly for the
\* lines with fewer than three spaces (every blank line and every line of one
\* to three tokens separated by single spaces, with no trailing space) and
\* the lines that do not begin with a date field, a space, a time field that
\* parse as YYYY-MM-DD HH:MM:SS, and a space.
C8_FewSpacesIsError ==
    pc = "parsed" =>
        /\ (NumSpaces(line) < 3 \/ ~BeginsWithDateTime(line))
               <=> parsed.err # ""
        /\ parsed.err # "" => parsed.entry = ZeroEntry
        /\ NumSpaces(line) < 3 => parsed.err = "invalid log entry"

C8_Witness ==
    /\ pc = "parsed"
    /\ line = <<"D"," ","T1"," ","x">>
    /\ parsed.err = "invalid log entry"

(* C9 *)

\* C9: the message Print reports is a key of MsgFrequency with the largest
\* count, and each key with the largest count can be the one reported.
C9_ReportsAMostFrequentMessage ==
    /\ out.printed => out.freqMsg \in MostFrequent(report.MsgFrequency)
    /\ pc = "print" =>
          \A k \in MostFrequent(report.MsgFrequency) :
              ENABLED (PrintReport /\ out'.freqMsg = k)

C9_Witness ==
    /\ out.printed
    /\ Len(logs) >= 2
    /\ Cardinality(MostFrequent(report.MsgFrequency)) >= 2
    /\ out.freqMsg = logs[1].message
    /\ out.freqMsg # logs[Len(logs)].message

(* C10 *)

====
